---- MODULE Spec2Model ----
(***************************************************************************)
(* Sifteo Thundercracker simulator: the master-controller simulation       *)
(* thread of emulator/src/system_mc.cpp.                                   *)
(*                                                                         *)
(* Three kinds of execution context are modelled:                          *)
(*   - the controlling context, which calls start(), stop(), installELF(); *)
(*   - the master thread(s) running threadFn -> Radio::halt ->             *)
(*     doRadioPacket;                                                      *)
(*   - the cube simulation thread, which advances sys->time.clocks up to   *)
(*     the deadline given by the master and pauses at a rendezvous.        *)
(*                                                                         *)
(* system_mc.h, the cube synchronizer (getCubeSync()), RadioManager,       *)
(* RadioAddress and FlashDevice are not part of the sources at hand; they  *)
(* are modelled from the written specification.                            *)
(***************************************************************************)
EXTENDS Integers, Sequences, FiniteSets, TLC

(* ---------------------------- constants -------------------------------- *)

\* system_mc.h (used at system_mc.cpp:82, :144, :224, :231)
MAX_RETRIES == 3
TICKS_PER_PACKET == 2
STARTUP_DELAY == 1

\* uint8_t buf[512] in installELF
BUF_SIZE == 512

(* ------------------------------ bounds --------------------------------- *)

\* Transactions start only while ticks leaves room for a whole retry loop.
MaxTicks == 8
\* sys->opt_numCubes
NumCubes == 1
\* How far the cube thread runs before the master has given it a deadline.
MaxBoot == 4

Threads == {1, 2}
Cubes == 1 .. NumCubes

\* RadioAddress: channel plus id bytes.
AddrA == [channel |-> 1, id |-> 1]
AddrB == [channel |-> 2, id |-> 1]
Dests == {AddrA, AddrB}
NullDest == [channel |-> 0, id |-> 0]

\* RadioAddress::pack(): the bit-compacted form used for comparison.
Pack(a) == a.id * 256 + a.channel

PackedAddrs == {Pack(a) : a \in Dests}

\* Capacity of the simulated flash store, in bytes (scaled down).
FLASH_SIZE == 1024

\* Lengths of the image files installELF is given: empty, more than one
\* buffer, and one byte more than the store holds.
FileLens == {0, BUF_SIZE + 1, FLASH_SIZE + 1}

NoDeadline == -1
NoCube == 0
NoFile == -1

VARIABLES
    mThreadRunning,   \* SystemMC::mThreadRunning
    mThread,          \* SystemMC::mThread: a thread id, or 0
    ticks,            \* SystemMC::ticks
    clocks,           \* sys->time.clocks, advanced by the cube thread
    deadline,         \* cube synchronizer: tick the cube thread may run to
    eventPending,     \* cube synchronizer: the master asked for a rendezvous
    cubePaused,       \* cube synchronizer: the cube thread acknowledged and waits
    cubeAddr,         \* cube.spi.radio RX address, packed, per cube
    th,               \* master threads: program counter and doRadioPacket's buf
    tx,               \* per thread: what the current transaction has done so far
    cpc,              \* controlling context: program counter
    inInstall,        \* controlling context is inside installELF
    restartThread,    \* installELF local
    success,          \* installELF local
    file,             \* installELF: length of the open file, or NoFile
    filePos,          \* installELF: read position of the open file
    fileEof,          \* installELF: feof(elfFile)
    addr,             \* installELF local
    flash,            \* FlashDevice contents
    invalidations,    \* FlashBlock::invalidate() calls of the current installELF
    everStarted,      \* start() has been called on this object
    lastBound,        \* the tick last passed to beginEventAt, or NoDeadline
    aborted           \* "no", or how the process died

vars == <<mThreadRunning, mThread, ticks, clocks, deadline,
          eventPending, cubePaused, cubeAddr, th, tx, cpc, inInstall,
          restartThread, success, file, filePos, fileEof, addr, flash,
          invalidations, everStarted, lastBound, aborted>>

syncVars == <<deadline, eventPending, cubePaused, lastBound>>
cubeVars == <<clocks, cubeAddr>>
installVars == <<inInstall, restartThread, success, file, filePos, fileEof,
                 addr, flash, invalidations>>
ctlVars == <<cpc, installVars>>

NoThread == [pc |-> "none", dest |-> NullDest, retry |-> 0, cube |-> NoCube,
             ack |-> FALSE, replyLen |-> 0]

NoTx == [active |-> FALSE, done |-> FALSE, attempts |-> 0, start |-> 0,
         reports |-> <<>>, noMatch |-> TRUE, anyAck |-> FALSE,
         firstAck |-> FALSE, interrupted |-> FALSE]

Init ==
    /\ mThreadRunning = FALSE
    /\ mThread = 0
    /\ ticks = 0
    /\ clocks = 0
    /\ deadline = NoDeadline
    /\ eventPending = FALSE
    /\ cubePaused = FALSE
    /\ cubeAddr \in [Cubes -> PackedAddrs]
    /\ th = [t \in Threads |-> NoThread]
    /\ tx = [t \in Threads |-> NoTx]
    /\ cpc = "idle"
    /\ inInstall = FALSE
    /\ restartThread = FALSE
    /\ success = TRUE
    /\ file = NoFile
    /\ filePos = 0
    /\ fileEof = FALSE
    /\ addr = 0
    /\ flash = [erased |-> FALSE, writes |-> <<>>]
    /\ invalidations = 0
    /\ everStarted = FALSE
    /\ lastBound = NoDeadline
    /\ aborted = "no"

(* --------------------------- pure helpers ------------------------------ *)

Min(a, b) == IF a < b THEN a ELSE b

\* SystemMC::getCubeForAddress: the first cube whose packed RX address
\* equals the packed destination, or NULL.
RECURSIVE ScanCubes(_, _, _)
ScanCubes(i, packed, addrs) ==
    IF i > NumCubes THEN NoCube
    ELSE IF addrs[i] = packed THEN i
    ELSE ScanCubes(i + 1, packed, addrs)

getCubeForAddress(a, addrs) == ScanCubes(1, Pack(a), addrs)

\* threadFn: ticks = sys->time.clocks + STARTUP_DELAY
StartupTicks(c) == c + STARTUP_DELAY

AdvanceTicksTwice(tk) == tk + 2 * TICKS_PER_PACKET

\* beginPacket: ticks += TICKS_PER_PACKET
AdvanceTicks(tk) == tk + TICKS_PER_PACKET

\* endPacket: the bound handed to endEvent
NextOpportunity(tk) == tk + TICKS_PER_PACKET

HaltExitsNever(running) == FALSE

\* Radio::halt: if (!smc->mThreadRunning) longjmp(...)
HaltExits(running) == ~running

RetryContinuesOffByOne(retry) == retry < MAX_RETRIES

\* doRadioPacket: for (retry = 0; retry < MAX_RETRIES; ++retry)
RetryContinues(retry) == retry + 1 < MAX_RETRIES

ReturnsOnAckNever(ack) == FALSE

\* doRadioPacket: if (buf.ack) { ...; return; }
ReturnsOnAck(ack) == ack

AckReportSwapped(len) == IF len # 0 THEN "ackEmpty" ELSE "ackWithPacket"

\* doRadioPacket: if (buf.reply.len) ackWithPacket else ackEmpty
AckReport(len) == IF len # 0 THEN "ackWithPacket" ELSE "ackEmpty"

DestValidAlways(d) == TRUE

\* doRadioPacket: ASSERT(buf.ptx.dest != NULL)
DestValid(d) == d # NullDest

\* FlashDevice::write(at, buf, len) reaches past the capacity of the store:
\* the device then either takes the write as issued or ends the process.
PastEnd(at, len) == at + len > FLASH_SIZE

NextAddrStuck(a, rxed) == a

\* installELF: addr += rxed
NextAddr(a, rxed) == a + rxed

\* What the store holds at address a after the writes made since the last
\* chip erase: the file offset of the byte written there last, or Erased.
Erased == -1
RECURSIVE StoreAt(_, _, _)
StoreAt(a, writes, n) ==
    IF n = 0 THEN Erased
    ELSE IF writes[n].at <= a /\ a < writes[n].at + writes[n].len
    THEN writes[n].from + (a - writes[n].at)
    ELSE StoreAt(a, writes, n - 1)

\* The lowest thread slot not in use: the thread "new tthread::thread" creates.
FreeSlots == {t \in Threads : th[t].pc = "none"}
NewThread == CHOOSE t \in FreeSlots : \A u \in FreeSlots : t <= u

\* Threads blocked on the synchronizer's condition re-check it when notified.
Notified(threads) ==
    [t \in Threads |->
        IF threads[t].pc = "sleep" THEN [threads[t] EXCEPT !.pc = "wait"]
        ELSE threads[t]]

(* --------------------------- master thread ----------------------------- *)

\* threadFn up to its main loop: setjmp, the tick counter, Radio::open.
ThreadFnInit(t) ==
    /\ th[t].pc = "entry"
    /\ ticks' = StartupTicks(clocks)
    /\ th' = [th EXCEPT ![t].pc = "work"]
    /\ UNCHANGED <<mThreadRunning, mThread, syncVars, cubeVars,
                   tx, ctlVars, everStarted, aborted>>

\* Tasks::work() (and the firmware run by SvmLoader::run): between
\* transactions the firmware may call checkQuiescentVRAM(slot), which returns
\* at once when the slot has no video buffer.
TasksWork(t) ==
    /\ th[t].pc = "work"
    /\ \/ th' = [th EXCEPT ![t] = [NoThread EXCEPT !.pc = "halt"]]
       \/ \E slotAddr \in Dests :
             th' = [th EXCEPT ![t] = [NoThread EXCEPT !.pc = "vram_read",
                                                      !.dest = slotAddr]]
    /\ tx' = [tx EXCEPT ![t] = NoTx]
    /\ UNCHANGED <<mThreadRunning, mThread, ticks, syncVars,
                   cubeVars, ctlVars, everStarted, aborted>>

\* checkQuiescentVRAM: getCubeForSlot, then the comparison of the cube's
\* memory with the buffer; a mismatch is ASSERT(0).
CheckQuiescentVRAM(t) ==
    /\ th[t].pc = "vram_read"
    /\ \E match \in BOOLEAN :
          LET hw == getCubeForAddress(th[t].dest, cubeAddr) IN
          /\ th' = [th EXCEPT ![t].pc = "halt", ![t].dest = NullDest]
          /\ aborted' = IF hw # NoCube /\ ~match THEN "assert_vram" ELSE aborted
    /\ UNCHANGED <<mThreadRunning, mThread, ticks, syncVars,
                   cubeVars, tx, ctlVars, everStarted>>

\* Radio::halt: leave through longjmp when stop() was requested, otherwise
\* doRadioPacket up to the retry loop: RadioManager::produce and the ASSERT.
RadioHalt(t) ==
    /\ th[t].pc = "halt"
    /\ IF HaltExits(mThreadRunning)
       THEN /\ th' = [th EXCEPT ![t] = [NoThread EXCEPT !.pc = "exited"]]
            /\ UNCHANGED <<tx, aborted>>
       ELSE \E d \in Dests \cup {NullDest} :
                  IF ~DestValid(d)
                  THEN /\ aborted' = "assert_dest"
                       /\ UNCHANGED <<th, tx>>
                  ELSE /\ ticks + MAX_RETRIES * TICKS_PER_PACKET <= MaxTicks
                       /\ th' = [th EXCEPT ![t] = [NoThread EXCEPT
                                     !.pc = "begin", !.dest = d]]
                       /\ tx' = [tx EXCEPT ![t] = [NoTx EXCEPT
                                     !.active = TRUE, !.start = ticks]]
                       /\ UNCHANGED aborted
    /\ UNCHANGED <<mThreadRunning, mThread, ticks, syncVars,
                   cubeVars, ctlVars, everStarted>>

\* beginPacket: advance the tick counter and ask for the rendezvous.
BeginPacket(t) ==
    /\ th[t].pc = "begin"
    /\ ticks' = AdvanceTicks(ticks)
    /\ deadline' = ticks'
    /\ eventPending' = TRUE
    /\ lastBound' = ticks'
    /\ th' = [th EXCEPT ![t].pc = "wait"]
    /\ tx' = [tx EXCEPT ![t].attempts = @ + 1]
    /\ UNCHANGED <<mThreadRunning, mThread, cubePaused, cubeVars,
                   ctlVars, everStarted, aborted>>

BeginEventWaitExitsOnStop(t) ==
    /\ th[t].pc = "wait"
    /\ IF ~mThreadRunning
       THEN /\ th' = [th EXCEPT ![t].pc = "exited"]
            /\ UNCHANGED tx
       ELSE IF cubePaused
       THEN /\ th' = [th EXCEPT ![t].pc = "resolve"]
            /\ UNCHANGED tx
       ELSE /\ th' = [th EXCEPT ![t].pc = "sleep"]
            /\ UNCHANGED tx
    /\ UNCHANGED <<mThreadRunning, mThread, ticks, syncVars,
                   cubeVars, ctlVars, everStarted, aborted>>

\* beginEventAt(ticks, mThreadRunning): return once the cube thread has
\* acknowledged, or at once when the master is not running; else block.
BeginEventWait(t) ==
    /\ th[t].pc = "wait"
    /\ IF cubePaused \/ ~mThreadRunning
       THEN /\ th' = [th EXCEPT ![t].pc = "resolve"]
            /\ UNCHANGED tx
       ELSE /\ th' = [th EXCEPT ![t].pc = "sleep"]
            /\ UNCHANGED tx
    /\ UNCHANGED <<mThreadRunning, mThread, ticks, syncVars,
                   cubeVars, ctlVars, everStarted, aborted>>

ResolveOnFirstAttemptOnly(t) ==
    /\ th[t].pc = "resolve"
    /\ LET c == IF th[t].retry = 0
                THEN getCubeForAddress(th[t].dest, cubeAddr)
                ELSE th[t].cube IN
       /\ th' = [th EXCEPT ![t].cube = c,
                           ![t].ack = FALSE,
                           ![t].pc = IF c = NoCube THEN "end" ELSE "handle"]
       /\ tx' = [tx EXCEPT ![t].noMatch = @ /\ c = NoCube]
    /\ UNCHANGED <<mThreadRunning, mThread, ticks, syncVars,
                   cubeVars, ctlVars, everStarted, aborted>>

\* doRadioPacket: Cube::Hardware *cube = getCubeForAddress(buf.ptx.dest)
Resolve(t) ==
    /\ th[t].pc = "resolve"
    /\ LET c == getCubeForAddress(th[t].dest, cubeAddr) IN
       /\ th' = [th EXCEPT ![t].cube = c,
                           ![t].ack = FALSE,
                           ![t].pc = IF c = NoCube THEN "end" ELSE "handle"]
       /\ tx' = [tx EXCEPT ![t].noMatch = @ /\ c = NoCube]
    /\ UNCHANGED <<mThreadRunning, mThread, ticks, syncVars,
                   cubeVars, ctlVars, everStarted, aborted>>

\* doRadioPacket: buf.ack = cube->spi.radio.handlePacket(buf.packet, buf.reply)
HandlePacket(t) ==
    /\ th[t].pc = "handle"
    /\ \E a \in BOOLEAN, len \in {0, 1} :
          /\ th' = [th EXCEPT ![t].ack = a,
                              ![t].replyLen = IF a THEN len ELSE @,
                              ![t].pc = "end"]
          /\ tx' = [tx EXCEPT ![t].anyAck = @ \/ a,
                              ![t].firstAck = IF tx[t].attempts = 1 THEN a ELSE @]
    /\ UNCHANGED <<mThreadRunning, mThread, ticks, syncVars,
                   cubeVars, ctlVars, everStarted, aborted>>

\* endPacket: endEvent(ticks + TICKS_PER_PACKET) lets the cube thread go on.
EndPacket(t) ==
    /\ th[t].pc = "end"
    /\ deadline' = NextOpportunity(ticks)
    /\ eventPending' = FALSE
    /\ cubePaused' = FALSE
    /\ th' = [th EXCEPT ![t].pc = "respond"]
    /\ UNCHANGED <<mThreadRunning, mThread, ticks, lastBound, cubeVars, tx,
                   ctlVars, everStarted, aborted>>

RespondSilentWhenStopping(t) ==
    /\ th[t].pc = "respond"
    /\ IF ReturnsOnAck(th[t].ack)
       THEN /\ th' = [th EXCEPT ![t].pc = "work"]
            /\ tx' = [tx EXCEPT ![t].reports = IF mThreadRunning
                                               THEN Append(@, AckReport(th[t].replyLen))
                                               ELSE @,
                                ![t].done = TRUE, ![t].active = FALSE]
       ELSE IF RetryContinues(th[t].retry)
       THEN /\ th' = [th EXCEPT ![t].retry = @ + 1, ![t].pc = "begin"]
            /\ UNCHANGED tx
       ELSE /\ th' = [th EXCEPT ![t].pc = "work"]
            /\ tx' = [tx EXCEPT ![t].reports = IF mThreadRunning
                                               THEN Append(@, "timeout")
                                               ELSE @,
                                ![t].done = TRUE, ![t].active = FALSE]
    /\ UNCHANGED <<mThreadRunning, mThread, ticks, syncVars, cubeVars,
                   ctlVars, everStarted, aborted>>

\* doRadioPacket after endPacket: send the response and return, or go round
\* the retry loop, or fall out of it into RadioManager::timeout().
Respond(t) ==
    /\ th[t].pc = "respond"
    /\ IF ReturnsOnAck(th[t].ack)
       THEN /\ th' = [th EXCEPT ![t].pc = "work"]
            /\ tx' = [tx EXCEPT ![t].reports = Append(@, AckReport(th[t].replyLen)),
                                ![t].done = TRUE, ![t].active = FALSE]
       ELSE IF RetryContinues(th[t].retry)
       THEN /\ th' = [th EXCEPT ![t].retry = @ + 1, ![t].pc = "begin"]
            /\ UNCHANGED tx
       ELSE /\ th' = [th EXCEPT ![t].pc = "work"]
            /\ tx' = [tx EXCEPT ![t].reports = Append(@, "timeout"),
                                ![t].done = TRUE, ![t].active = FALSE]
    /\ UNCHANGED <<mThreadRunning, mThread, ticks, syncVars,
                   cubeVars, ctlVars, everStarted, aborted>>

MasterStep(t) ==
    \/ ThreadFnInit(t)
    \/ TasksWork(t)
    \/ CheckQuiescentVRAM(t)
    \/ RadioHalt(t)
    \/ BeginPacket(t)
    \/ BeginEventWait(t)
    \/ Resolve(t)
    \/ HandlePacket(t)
    \/ EndPacket(t)
    \/ Respond(t)

(* ----------------------------- cube thread ----------------------------- *)

\* The cube simulation runs one clock tick, no farther than its deadline.
CubeTick ==
    /\ ~cubePaused
    /\ IF deadline = NoDeadline THEN clocks < MaxBoot ELSE clocks < deadline
    /\ clocks' = clocks + 1
    /\ UNCHANGED <<mThreadRunning, mThread, ticks, syncVars,
                   cubeAddr, th, tx, ctlVars, everStarted, aborted>>

\* The cube thread reaches the requested tick, acknowledges and waits.
CubeAck ==
    /\ eventPending
    /\ ~cubePaused
    /\ clocks >= deadline
    /\ cubePaused' = TRUE
    /\ th' = Notified(th)
    /\ UNCHANGED <<mThreadRunning, mThread, ticks, deadline, eventPending,
                   lastBound, cubeVars, tx, ctlVars, everStarted, aborted>>

\* The cube's firmware changes its radio RX address.
CubeSetAddr ==
    /\ ~cubePaused
    /\ \E i \in Cubes, a \in PackedAddrs :
          /\ cubeAddr[i] # a
          /\ cubeAddr' = [cubeAddr EXCEPT ![i] = a]
    /\ UNCHANGED <<mThreadRunning, mThread, ticks, syncVars,
                   clocks, th, tx, ctlVars, everStarted, aborted>>

(* ------------------------- controlling context ------------------------- *)

StartBodyFlagNotSet ==
    /\ FreeSlots # {}
    /\ mThreadRunning' = mThreadRunning
    /\ mThread' = NewThread
    /\ th' = [th EXCEPT ![NewThread].pc = "entry"]
    /\ everStarted' = TRUE

\* start(): mThreadRunning = true; mThread = new tthread::thread(threadFn, 0)
StartBody ==
    /\ FreeSlots # {}
    /\ mThreadRunning' = TRUE
    /\ mThread' = NewThread
    /\ th' = [th EXCEPT ![NewThread].pc = "entry"]
    /\ everStarted' = TRUE

\* stop(): mThreadRunning = false
StopSetFlag ==
    /\ mThreadRunning' = FALSE
    /\ tx' = [t \in Threads |->
                 [tx[t] EXCEPT !.interrupted = @ \/ th[t].pc = "sleep"]]

\* start() called by the owner of a SystemMC that has no thread.
Start ==
    /\ cpc = "idle"
    /\ mThread = 0
    /\ StartBody
    /\ UNCHANGED <<ticks, syncVars, cubeVars, tx, ctlVars, aborted>>

\* stop() called by the owner of a SystemMC that has a thread.
Stop ==
    /\ cpc = "idle"
    /\ mThread # 0
    /\ StopSetFlag
    /\ cpc' = "stop_wake"
    /\ UNCHANGED <<mThread, ticks, syncVars, cubeVars, th,
                   installVars, everStarted, aborted>>

\* stop(): sys->getCubeSync().wake()
StopWake ==
    /\ cpc = "stop_wake"
    /\ th' = Notified(th)
    /\ cpc' = "stop_join"
    /\ UNCHANGED <<mThreadRunning, mThread, ticks, syncVars,
                   cubeVars, tx, installVars, everStarted, aborted>>

StopJoinWithoutWaiting ==
    /\ cpc = "stop_join"
    /\ mThread # 0
    /\ mThread' = 0
    /\ cpc' = IF inInstall THEN "inst_open" ELSE "idle"
    /\ UNCHANGED <<mThreadRunning, ticks, syncVars, cubeVars, th, tx,
                   installVars, everStarted, aborted>>

\* stop(): mThread->join(); delete mThread; mThread = 0
StopJoin ==
    /\ cpc = "stop_join"
    /\ mThread # 0
    /\ th[mThread].pc = "exited"
    /\ th' = [th EXCEPT ![mThread] = NoThread]
    /\ tx' = [tx EXCEPT ![mThread] = NoTx]
    /\ mThread' = 0
    /\ cpc' = IF inInstall THEN "inst_open" ELSE "idle"
    /\ UNCHANGED <<mThreadRunning, ticks, syncVars, cubeVars,
                   installVars, everStarted, aborted>>

InstallELFNoStop ==
    /\ cpc = "idle"
    /\ inInstall' = TRUE
    /\ restartThread' = mThreadRunning
    /\ success' = TRUE
    /\ invalidations' = 0
    /\ cpc' = "inst_open"
    /\ UNCHANGED <<mThreadRunning, mThread, ticks, syncVars,
                   cubeVars, th, tx, file, filePos, fileEof, addr, flash, everStarted, aborted>>

\* installELF: bool restartThread = instance->mThreadRunning
InstallELF ==
    /\ cpc = "idle"
    /\ inInstall' = TRUE
    /\ restartThread' = mThreadRunning
    /\ success' = TRUE
    /\ invalidations' = 0
    /\ cpc' = IF mThreadRunning THEN "inst_stop" ELSE "inst_open"
    /\ UNCHANGED <<mThreadRunning, mThread, ticks, syncVars,
                   cubeVars, th, tx, file, filePos, fileEof, addr, flash, everStarted, aborted>>

\* installELF: if (restartThread) instance->stop()
InstallStop ==
    /\ cpc = "inst_stop"
    /\ StopSetFlag
    /\ cpc' = "stop_wake"
    /\ UNCHANGED <<mThread, ticks, syncVars, cubeVars, th,
                   installVars, everStarted, aborted>>

InstallOpenFailureErases ==
    /\ cpc = "inst_open"
    /\ \E f \in FileLens \cup {NoFile} :
          IF f = NoFile
          THEN /\ success' = FALSE
               /\ cpc' = "inst_erase"
               /\ UNCHANGED <<file, filePos, fileEof>>
          ELSE /\ file' = f
               /\ filePos' = 0
               /\ fileEof' = FALSE
               /\ cpc' = "inst_erase"
               /\ UNCHANGED success
    /\ UNCHANGED <<mThreadRunning, mThread, ticks, syncVars,
                   cubeVars, th, tx, inInstall, restartThread, addr, flash,
                   invalidations, everStarted, aborted>>

InstallOpenFailureSkipsInvalidate ==
    /\ cpc = "inst_open"
    /\ \E f \in FileLens \cup {NoFile} :
          IF f = NoFile
          THEN /\ success' = FALSE
               /\ cpc' = "inst_restart"
               /\ UNCHANGED <<file, filePos, fileEof>>
          ELSE /\ file' = f
               /\ filePos' = 0
               /\ fileEof' = FALSE
               /\ cpc' = "inst_erase"
               /\ UNCHANGED success
    /\ UNCHANGED <<mThreadRunning, mThread, ticks, syncVars,
                   cubeVars, th, tx, inInstall, restartThread, addr, flash,
                   invalidations, everStarted, aborted>>

\* installELF: fopen(path, "rb")
InstallOpen ==
    /\ cpc = "inst_open"
    /\ \E f \in FileLens \cup {NoFile} :
          IF f = NoFile
          THEN /\ success' = FALSE
               /\ cpc' = "inst_invalidate"
               /\ UNCHANGED <<file, filePos, fileEof>>
          ELSE /\ file' = f
               /\ filePos' = 0
               /\ fileEof' = FALSE
               /\ cpc' = "inst_erase"
               /\ UNCHANGED success
    /\ UNCHANGED <<mThreadRunning, mThread, ticks, syncVars,
                   cubeVars, th, tx, inInstall, restartThread, addr, flash,
                   invalidations, everStarted, aborted>>

\* installELF: FlashDevice::chipErase(); unsigned addr = 0
InstallErase ==
    /\ cpc = "inst_erase"
    /\ flash' = [erased |-> TRUE, writes |-> <<>>]
    /\ addr' = 0
    /\ cpc' = "inst_copy"
    /\ UNCHANGED <<mThreadRunning, mThread, ticks, syncVars,
                   cubeVars, th, tx, inInstall, restartThread, success, file,
                   filePos, fileEof, invalidations, everStarted,
                   aborted>>

\* installELF: one round of while (!feof(elfFile)) { fread; write; addr += rxed },
\* or fclose once the end of the file has been seen.
InstallCopy ==
    /\ cpc = "inst_copy"
    /\ IF fileEof
       THEN /\ file' = NoFile
            /\ cpc' = "inst_invalidate"
            /\ UNCHANGED <<filePos, fileEof, addr, flash>>
       ELSE LET rxed == Min(BUF_SIZE, file - filePos) IN
            /\ filePos' = filePos + rxed
            /\ fileEof' = (rxed < BUF_SIZE)
            /\ flash' = IF rxed > 0
                        THEN [flash EXCEPT !.writes =
                                 Append(@, [at |-> addr, len |-> rxed, from |-> filePos])]
                        ELSE flash
            /\ addr' = IF rxed > 0 THEN NextAddr(addr, rxed) ELSE addr
            /\ aborted' \in IF rxed > 0 /\ PastEnd(addr, rxed)
                             THEN {aborted, "flash_range"}
                             ELSE {aborted}
            /\ UNCHANGED <<file, cpc>>
    /\ fileEof => UNCHANGED aborted
    /\ UNCHANGED <<mThreadRunning, mThread, ticks, syncVars,
                   cubeVars, th, tx, inInstall, restartThread, success,
                   invalidations, everStarted>>

\* installELF: FlashBlock::invalidate()
InstallInvalidate ==
    /\ cpc = "inst_invalidate"
    /\ invalidations' = invalidations + 1
    /\ cpc' = "inst_restart"
    /\ UNCHANGED <<mThreadRunning, mThread, ticks, syncVars,
                   cubeVars, th, tx, inInstall, restartThread, success, file,
                   filePos, fileEof, addr, flash, everStarted,
                   aborted>>

\* installELF: if (restartThread) instance->start(); return success
InstallReturn ==
    /\ cpc = "inst_restart"
    /\ IF restartThread
       THEN StartBody
       ELSE UNCHANGED <<mThreadRunning, mThread, th, everStarted>>
    /\ invalidations' = 0
    /\ inInstall' = FALSE
    /\ restartThread' = FALSE
    /\ success' = TRUE
    /\ filePos' = 0
    /\ fileEof' = FALSE
    /\ addr' = 0
    /\ cpc' = "idle"
    /\ UNCHANGED <<ticks, syncVars, cubeVars, tx, file, flash, aborted>>

(* --------------------------- specifications ---------------------------- *)

Next ==
    /\ aborted = "no"
    /\ \/ \E t \in Threads : MasterStep(t)
       \/ CubeTick
       \/ CubeAck
       \/ CubeSetAddr
       \/ Start
       \/ Stop
       \/ StopWake
       \/ StopJoin
       \/ InstallELF
       \/ InstallStop
       \/ InstallOpen
       \/ InstallErase
       \/ InstallCopy
       \/ InstallInvalidate
       \/ InstallReturn

Spec == Init /\ [][Next]_vars

(* Callers that break the lifecycle contract. *)

\* start() called while mThread still names a thread.
StartWhileRunning ==
    /\ cpc = "idle"
    /\ mThread # 0
    /\ StartBody
    /\ UNCHANGED <<ticks, syncVars, cubeVars, tx, ctlVars, aborted>>

\* stop() called while mThread is 0: mThread->join() dereferences NULL.
StopWithoutThread ==
    /\ cpc = "idle"
    /\ mThread = 0
    /\ mThreadRunning' = FALSE
    /\ aborted' = "crash"
    /\ UNCHANGED <<mThread, ticks, syncVars, cubeVars, th, tx, ctlVars,
                   everStarted>>

\* The run is followed up to its first breach of the contract.
Breached == Cardinality({t \in Threads : th[t].pc # "none"}) > 1

NextMisuse ==
    /\ aborted = "no"
    /\ ~Breached
    /\ \/ Next
       \/ StartWhileRunning
       \/ StopWithoutThread

SpecMisuse == Init /\ [][NextMisuse]_vars

(* Fair scheduling of the threads; a stop() in progress runs on. *)
Fairness ==
    /\ \A t \in Threads : WF_vars(aborted = "no" /\ MasterStep(t))
    /\ WF_vars(aborted = "no" /\ CubeTick)
    /\ WF_vars(aborted = "no" /\ CubeAck)
    /\ WF_vars(aborted = "no" /\ StopWake)
    /\ WF_vars(aborted = "no" /\ StopJoin)

SpecLive == Spec /\ Fairness

(* ------------------------------ claims --------------------------------- *)

\* A master thread is inside the retry loop of doRadioPacket.
InAttempt(t) == th[t].pc \in {"begin", "wait", "sleep", "resolve", "handle", "end", "respond"}

\* The step of beginPacket by some thread: one delivery attempt begins.
AttemptStep == \E t \in Threads : th[t].pc = "begin" /\ th'[t].pc = "wait"

\* The step of threadFn that sets the tick counter.
ThreadStartStep == \E t \in Threads : th[t].pc = "entry" /\ th'[t].pc = "work"

\* C1: every transaction that passed the destination assertion makes exactly
\* one report; none is made while an attempt is still to come or under way;
\* the report is ackWithPacket iff the acknowledged reply has length > 0,
\* ackEmpty iff it has length 0, timeout iff no attempt was acknowledged.
C1_ExactlyOneReport ==
    \A t \in Threads :
        /\ Len(tx[t].reports) <= 1
        /\ tx[t].active => InAttempt(t) /\ tx[t].reports = <<>>
        /\ tx[t].done =>
              /\ th[t].pc = "work"
              /\ Len(tx[t].reports) = 1
              /\ tx[t].reports[1] = "ackWithPacket" <=> (th[t].ack /\ th[t].replyLen > 0)
              /\ tx[t].reports[1] = "ackEmpty" <=> (th[t].ack /\ th[t].replyLen = 0)
              /\ tx[t].reports[1] = "timeout" <=> ~tx[t].anyAck
              /\ th[t].ack = tx[t].anyAck

C1_Witness ==
    \E t \in Threads :
        tx[t].done /\ tx[t].reports = <<"ackWithPacket">> /\ tx[t].attempts = 2

\* C2: a transaction whose destination matched no cube in any attempt has
\* made exactly MAX_RETRIES attempts, reported one timeout and nothing else,
\* and moved the tick counter by MAX_RETRIES * TICKS_PER_PACKET.
C2_UnresolvedTimesOut ==
    \A t \in Threads :
        (tx[t].done /\ tx[t].noMatch) =>
            /\ tx[t].attempts = MAX_RETRIES
            /\ tx[t].reports = <<"timeout">>
            /\ ticks = tx[t].start + MAX_RETRIES * TICKS_PER_PACKET

C2_Witness == \E t \in Threads : tx[t].done /\ tx[t].noMatch

\* C3: a transaction whose first attempt found a cube that acknowledged has
\* made one attempt, reported one acknowledgment and no timeout, and moved
\* the tick counter by one TICKS_PER_PACKET.
C3_AckOnFirstAttempt ==
    \A t \in Threads :
        (tx[t].done /\ tx[t].firstAck) =>
            /\ tx[t].attempts = 1
            /\ Len(tx[t].reports) = 1
            /\ tx[t].reports[1] \in {"ackWithPacket", "ackEmpty"}
            /\ ticks = tx[t].start + TICKS_PER_PACKET

C3_Witness ==
    \E t \in Threads : tx[t].done /\ tx[t].firstAck /\ tx[t].reports = <<"ackEmpty">>

C5_Original == [][AttemptStep => ticks' > lastBound]_vars

\* C6 as claimed, for the accesses made by doRadioPacket: the master reads a
\* cube's RX address and calls handlePacket only while the cube thread has
\* acknowledged the rendezvous and waits.
C6_Original ==
    \A t \in Threads : th[t].pc \in {"resolve", "handle"} => cubePaused

\* C7 as claimed: a transaction during which stop() was requested while the
\* master was blocked in beginEventAt makes no report.
C7_Original ==
    \A t \in Threads : tx[t].interrupted => tx[t].reports = <<>>

\* C7 as amended: such a transaction is not abandoned: it stays in progress
\* with stop requested until it ends, and it ends with exactly one report,
\* made before the thread leaves through Radio::halt.
C7_InterruptedStillReports ==
    \A t \in Threads :
        /\ tx[t].interrupted => ~mThreadRunning /\ (tx[t].active \/ tx[t].done)
        /\ (tx[t].interrupted /\ tx[t].done) => Len(tx[t].reports) = 1
        /\ th[t].pc = "exited" => ~tx[t].active

C7_Witness ==
    \E t \in Threads :
        tx[t].interrupted /\ tx[t].done /\ tx[t].reports = <<"timeout">>

\* stop() has cleared mThreadRunning and has not yet returned.
StopPending == cpc \in {"stop_wake", "stop_join"}

\* C8: under fair scheduling every stop() of a running master thread
\* returns: the thread reaches Radio::halt, leaves through longjmp and is
\* joined (unless the assertion of checkQuiescentVRAM has ended the process
\* before).
C8_StopReturns == StopPending ~> (~StopPending \/ aborted = "assert_vram")

\* stop() is about to return from join(), after a stop request that cut a
\* rendezvous short: the last window was opened at a tick the cube thread
\* has not reached.
C8_Witness ==
    /\ cpc = "stop_join"
    /\ mThread # 0
    /\ th[mThread].pc = "exited"
    /\ lastBound > clocks

\* The lifecycle state of the SystemMC object, from its fields.
ThreadState ==
    IF mThread # 0
    THEN IF mThreadRunning THEN "Running" ELSE "StopRequested"
    ELSE IF everStarted THEN "Exited" ELSE "Idle"

\* C9 as claimed: once Exited, the object never becomes Running again.
C9_Original == [][ThreadState = "Exited" => ThreadState' # "Running"]_vars

\* C9 as amended: the state moves Idle -> Running -> StopRequested -> Exited,
\* and from Exited back to Running when start() is called again on the same
\* object, as installELF does after its stop().
C9_Lifecycle ==
    [][ThreadState' # ThreadState =>
          <<ThreadState, ThreadState'>> \in
              {<<"Idle", "Running">>, <<"Running", "StopRequested">>,
               <<"StopRequested", "Exited">>, <<"Exited", "Running">>}]_vars

\* installELF has stopped the thread and is about to start it again.
C9_Witness ==
    /\ cpc = "inst_restart"
    /\ restartThread
    /\ ThreadState = "Exited"

\* C10 as claimed: misuse of start() and stop() is caught by a check, so no
\* second master thread is created and no join is made on a missing thread.
C10_Original ==
    /\ Cardinality({t \in Threads : th[t].pc # "none"}) <= 1
    /\ aborted # "crash"

\* C11: when RadioManager::produce leaves the destination null, the
\* assertion of doRadioPacket fails before any delivery attempt: the step that
\* fails it opens no window, leaves the tick counter alone, contacts no cube
\* and makes no report, and no attempt ever runs with a null destination.
C11_NullDestAborts ==
    [][/\ \A t \in Threads : InAttempt(t)' => th'[t].dest # NullDest
       /\ (aborted = "no" /\ aborted' = "assert_dest") =>
             /\ UNCHANGED <<ticks, syncVars, cubeVars, th, tx>>
             /\ \E t \in Threads :
                   /\ th[t].pc = "halt"
                   /\ tx[t].attempts = 0
                   /\ tx[t].reports = <<>>
                   /\ ~tx[t].active]_vars

\* The assertion failed in a thread that had completed transactions before.
C11_Witness ==
    /\ aborted = "assert_dest"
    /\ lastBound # NoDeadline
    /\ ticks = lastBound
    /\ ~eventPending

\* installELF is between its stop() and its start().
InstallQuiesced ==
    cpc \in {"inst_open", "inst_erase", "inst_copy", "inst_invalidate", "inst_restart"}

\* C12: installELF called while the master thread runs has stopped and joined
\* it before it opens the image; the store is erased and written only while
\* no master thread exists; the thread runs again on return exactly when it
\* ran at the call, whether or not the installation succeeded.
C12_InstallStopsAndRestarts ==
    [][/\ InstallQuiesced' =>
             /\ mThread' = 0
             /\ ~mThreadRunning'
             /\ \A t \in Threads : th'[t].pc = "none" /\ ~tx'[t].active
       /\ flash' # flash => \A t \in Threads : th[t].pc = "none"
       /\ (~inInstall /\ inInstall') => restartThread' = mThreadRunning
       /\ (inInstall /\ inInstall') => restartThread' = restartThread
       /\ (inInstall /\ ~inInstall') =>
             /\ mThreadRunning' = restartThread
             /\ (mThread' # 0) = restartThread
             /\ restartThread => th'[mThread'].pc = "entry"]_vars

\* installELF, called while the thread was running, is writing the store.
C12_Witness ==
    /\ cpc = "inst_copy"
    /\ restartThread
    /\ flash.writes # <<>>

\* The write loop of installELF ends: fclose after feof.
InstallCloseStep == cpc = "inst_copy" /\ cpc' = "inst_invalidate"

\* C13: when the image opens, the store is erased once, before the first
\* write; the writes are chunks of 1..512 bytes at consecutive addresses from
\* 0, in file order; when the loop ends the whole file has been written, and
\* for an image that fits the store holds the image at [0, len) and erased
\* content elsewhere; an empty image leaves the store erased with no write;
\* nothing else touches the store, and the erase runs once, after the open.
C13_InstallWritesImage ==
    [][/\ (cpc = "inst_erase" /\ cpc' # cpc) =>
             flash' = [erased |-> TRUE, writes |-> <<>>] /\ addr' = 0
       /\ (cpc = "inst_copy" /\ flash' # flash) =>
             /\ flash.erased /\ flash'.erased
             /\ \E w \in [at : {addr}, len : 1 .. BUF_SIZE, from : {addr}] :
                   /\ flash'.writes = Append(flash.writes, w)
                   /\ addr' = addr + w.len
       /\ InstallCloseStep =>
             /\ addr = file
             /\ (file = 0) = (flash.writes = <<>>)
             /\ file <= FLASH_SIZE =>
                   \A a \in 0 .. FLASH_SIZE - 1 :
                       StoreAt(a, flash.writes, Len(flash.writes)) =
                           IF a < file THEN a ELSE Erased
       /\ flash' # flash => cpc \in {"inst_erase", "inst_copy"}
       /\ (cpc' = "inst_erase" /\ cpc' # cpc) => cpc = "inst_open"]_vars

\* After an installation of a two-chunk image with restart, a transaction
\* has run to an acknowledged end.
C13_Witness ==
    /\ flash.erased
    /\ Len(flash.writes) = 2
    /\ flash.writes[2] = [at |-> BUF_SIZE, len |-> 1, from |-> BUF_SIZE]
    /\ ~inInstall
    /\ \E t \in Threads : tx[t].done /\ tx[t].reports = <<"ackWithPacket">>

\* C14: each call of installELF invalidates the flash block cache exactly
\* once, whether or not the image opened, after the last write to the store
\* and before the master thread is started again.
C14_InvalidateOnce ==
    [][/\ invalidations' # invalidations =>
             \/ cpc = "inst_invalidate" /\ invalidations' = invalidations + 1
             \/ inInstall' # inInstall /\ invalidations' = 0
       /\ (inInstall /\ ~inInstall') => invalidations = 1
       /\ (inInstall /\ invalidations = 1) =>
             /\ flash' = flash
             /\ mThread = 0
             /\ \A t \in Threads : th[t].pc = "none"]_vars

\* installELF, called while the thread was running, could not open the image
\* and has invalidated the cache; the thread is about to be started again.
C14_Witness ==
    /\ cpc = "inst_restart"
    /\ invalidations = 1
    /\ ~success
    /\ restartThread
    /\ mThread = 0

\* C15: when the image cannot be opened, installELF returns false, erases
\* and writes nothing, so the store keeps its content, and starts the master
\* thread again if it was running at the call; success is cleared by nothing
\* but the failed open.
C15_OpenFailure ==
    [][/\ success' # success =>
             \/ cpc = "inst_open" /\ file' = NoFile /\ ~success'
             \/ inInstall /\ ~inInstall' /\ success'
       /\ ~success' => flash' = flash
       /\ ~success =>
             /\ inInstall
             /\ cpc \in {"inst_invalidate", "inst_restart"}
             /\ cpc' \in {"inst_invalidate", "inst_restart", "idle"}
       /\ (~success /\ ~inInstall') =>
             /\ mThreadRunning' = restartThread
             /\ (mThread' # 0) = restartThread]_vars

\* The open failed in an installELF called while the thread was running, and
\* the store still holds the image of an earlier installation.
C15_Witness ==
    /\ cpc = "inst_restart"
    /\ ~success
    /\ restartThread
    /\ flash.erased
    /\ flash.writes # <<>>

\* C16 as claimed: installELF never reports success when a write of the
\* installation reached past the end of the store.
C16_Original ==
    (cpc = "inst_restart" /\ success) =>
        \A i \in 1 .. Len(flash.writes) :
            ~PastEnd(flash.writes[i].at, flash.writes[i].len)

\* The master threads inside doRadioPacket, between RadioManager::produce and
\* the report that ends the transaction.
InFlight == {t \in Threads : tx[t].active}

C18_Original ==
    [][(AttemptStep /\ lastBound # NoDeadline) =>
          /\ ~eventPending
          /\ clocks <= ticks']_vars

\* C19: within one transaction the packet is produced once, before the
\* first attempt, and every attempt delivers it to the cube getCubeForAddress
\* finds during that attempt; a transaction first acknowledged on attempt k
\* makes exactly k+1 attempts, advances the tick counter by (k+1) times
\* TICKS_PER_PACKET, reports the acknowledgment and makes no further attempt;
\* no transaction makes more than MAX_RETRIES attempts.
C19_AttemptsAndTicks ==
    [][\A t \in Threads :
          /\ (InAttempt(t) /\ InAttempt(t)') => th'[t].dest = th[t].dest
          /\ (~InAttempt(t) /\ InAttempt(t)') =>
                th[t].pc = "halt" /\ tx'[t].attempts = 0 /\ th'[t].retry = 0
          /\ (th[t].pc = "resolve" /\ th'[t].pc # "resolve") =>
                /\ th'[t].cube = getCubeForAddress(th[t].dest, cubeAddr)
                /\ (th'[t].pc = "handle") = (th'[t].cube # NoCube)
          /\ tx'[t].attempts <= MAX_RETRIES
          /\ InAttempt(t)' => tx'[t].attempts \in {th'[t].retry, th'[t].retry + 1}
          /\ (tx'[t].done /\ tx'[t].anyAck) =>
                /\ tx'[t].attempts = th'[t].retry + 1
                /\ ticks' = tx'[t].start + (th'[t].retry + 1) * TICKS_PER_PACKET
                /\ Len(tx'[t].reports) = 1
                /\ tx'[t].reports[1] \in {"ackWithPacket", "ackEmpty"}
          /\ (tx[t].done /\ tx'[t].done) => tx'[t].attempts = tx[t].attempts]_vars

\* A transaction was first acknowledged on its last attempt (k = 2).
C19_Witness ==
    \E t \in Threads :
        /\ tx[t].done
        /\ tx[t].anyAck
        /\ th[t].retry = MAX_RETRIES - 1
        /\ ticks = tx[t].start + MAX_RETRIES * TICKS_PER_PACKET

\* C20: the master thread leaves through longjmp only at the entry of
\* Radio::halt, with stop requested and before a transaction is started: at
\* that moment no window is open and no transaction is between produce and
\* its report, and it stays so while the thread waits to be joined.
C20_ExitOnlyAtHalt ==
    [][\A t \in Threads :
          /\ (th[t].pc # "exited" /\ th'[t].pc = "exited") =>
                /\ th[t].pc = "halt"
                /\ ~mThreadRunning
                /\ ~eventPending /\ ~cubePaused
                /\ ~tx[t].active
                /\ tx'[t] = tx[t]
                /\ UNCHANGED <<ticks, syncVars>>
          /\ th'[t].pc = "exited" =>
                ~eventPending' /\ ~tx'[t].active /\ th'[t].dest = NullDest]_vars

\* The thread has left through longjmp before stop() has called wake(), after
\* at least one delivery attempt.
C20_Witness ==
    /\ cpc = "stop_wake"
    /\ lastBound # NoDeadline
    /\ \E t \in Threads : th[t].pc = "exited"

====
